---- MODULE Spec2Model ----
(***************************************************************************)
(* The control loop of pyrepeater (src/pyrepeater/controller.py) with the  *)
(* serial transmit lines of src/pyrepeater/repeater.py.                    *)
(*                                                                         *)
(* Reading of the source.  The methods of Controller use status.busy,      *)
(* status.sleep (a flag), status.sleep_start_dt, status.sleep_wait_start   *)
(* and status.last_rcvd_dt as flat fields of self.status, and the settings *)
(* active_after_sec and id_when_sleep; Repeater.is_busy() is read as the   *)
(* value of the DSR line.  The model follows the methods.                  *)
(*                                                                         *)
(* Time.  datetime.now() is the variable now, in whole clock units.  The   *)
(* clock advances at the head of the loop and where the code blocks        *)
(* (asyncio.sleep in serial_enable_tx / serial_disable_tx, subprocess.run  *)
(* of the player); the statements in between read one clock value.         *)
(*                                                                         *)
(* Failures.  A serial write (setDTR / setRTS) may raise; the player may   *)
(* exit non-zero (subprocess.run(..., check=False)); launching the         *)
(* recorder (subprocess.Popen) may raise; a stop signal may arrive at any  *)
(* step.                                                                   *)
(*                                                                         *)
(* Spec is the loop of Controller.start_controller.  SpecMain is the loop  *)
(* of main() in src/pyrepeater/__init__.py, which keeps its own state and  *)
(* one watermark for both announcement timers.                             *)
(***************************************************************************)
EXTENDS Integers, Sequences, FiniteSets, TLC

\* ------------------------------------------------------------- bounds
\* the clock stops advancing at MaxTime
MaxTime == 6
\* the same for the runs checked for progress (FairSpec)
MaxTimeLive == 5

\* ------------------------------------------------ settings (settings.py)
\* id_mins * 60, in clock units
IdSecs == 2
\* rpt_info_mins * 60, in clock units
InfoSecs == 4
\* sleep_after_mins * 60, in clock units
SleepAfterSecs == 2
\* seconds of activity before leaving sleep
active_after_sec == 2
\* minimum seconds to record
min_rec_secs == 2
\* send repeater info messages when asleep (never read by the controller)
rpt_info_when_asleep == FALSE

\* ---------------------------------------------------------- vocabulary
\* Python's None for a timestamp or a recorder
None == -1
\* "sounds/repeater_info.wav"
INFO == "info"
\* "sounds/cw_id.wav"
CWID == "id"

VARIABLES
    now,                 \* datetime.now()
    pc,                  \* position of the loop of start_controller
    status,              \* Controller.status
    wait_before_active,  \* _wait_before_active of start_controller
    recorder,            \* Controller.recorder: None or its start_time
    id_when_sleep,       \* settings.id_when_sleep, fixed for the run
    dtr, rts,            \* the serial lines keying the transmitter
    play_idx,            \* position of the for loop of play_pending_messages
    \* --- observation of the run
    sample,              \* the busy sample that chose this tick's branch
    busy_since,          \* when the unbroken run of busy samples began, or None
    fired,               \* the timers that fired in this tick
    id_deferred,         \* an ID was due and held back since the repeater slept
    played,              \* clips handed to the player in this drain
    drain,               \* this drain: the queue it began with, keying and
                         \* unkeying results, position of the first clip whose
                         \* playback failed, the steps taken so far
    procs,               \* number of running recorder processes
    last_stop,           \* this tick's stop_recording: duration, file deleted
    tick_steps           \* the steps this tick has taken so far, in order

vars == <<now, pc, status, wait_before_active, recorder, id_when_sleep, dtr, rts,
          play_idx, sample, busy_since, fired, id_deferred, played, drain, procs,
          last_stop, tick_steps>>

\* ------------------------------------------------------------ __init__
InitStatus ==
    [busy |-> FALSE, last_rcvd_dt |-> 0,
     sleep |-> FALSE, sleep_start_dt |-> 0, sleep_wait_start |-> 0,
     last_id |-> 0, last_announcement |-> 0,
     pending_messages |-> <<INFO, CWID>>]

NoDrain ==
    [queue |-> <<>>, keyed |-> "none", unkeyed |-> "none", failed |-> 0, steps |-> <<>>]
NoStop == [duration |-> None, deleted |-> FALSE]

Init ==
    /\ now = 0
    /\ pc = "loop"
    /\ status = InitStatus
    /\ wait_before_active = FALSE
    /\ recorder = None
    /\ id_when_sleep \in BOOLEAN
    /\ dtr = FALSE /\ rts = FALSE
    /\ play_idx = 0
    /\ sample = "none"
    /\ busy_since = None
    /\ fired = {}
    /\ id_deferred = FALSE
    /\ played = <<>>
    /\ drain = NoDrain
    /\ procs = 0
    /\ last_stop = NoStop
    /\ tick_steps = <<>>

\* --------------------------------------------------------------- clock
\* where the program lets time pass: between iterations and in blocking calls
Blocking == {"loop", "pre_tx", "play", "post_tx"}

ClockAdvance ==
    /\ pc \in Blocking
    /\ now < MaxTime
    /\ now' = now + 1
    /\ UNCHANGED <<pc, status, wait_before_active, recorder, id_when_sleep, dtr, rts,
                   play_idx, sample, busy_since, fired, id_deferred, played, drain,
                   procs, last_stop, tick_steps>>

\* -------------------------------------------------------------- timers
\* variant: the threshold must be exceeded
sleep_timer_strict(s, t) ==
    IF ~s.sleep /\ t - s.last_rcvd_dt > SleepAfterSecs
    THEN [s EXCEPT !.sleep = TRUE, !.sleep_start_dt = t]
    ELSE s

sleep_timer(s, t) ==
    IF ~s.sleep /\ t - s.last_rcvd_dt >= SleepAfterSecs
    THEN [s EXCEPT !.sleep = TRUE, !.sleep_start_dt = t]
    ELSE s

\* variant: the info fire leaves the ID watermark alone
repeaterinfo_timer_keeps_last_id(s, t) ==
    IF t - s.last_announcement <= InfoSecs
    THEN s
    ELSE [s EXCEPT !.pending_messages = Append(Append(@, INFO), CWID),
                   !.last_announcement = t]

\* variant: the info clip is queued after the ID
repeaterinfo_timer_info_last(s, t) ==
    IF t - s.last_announcement <= InfoSecs
    THEN s
    ELSE [s EXCEPT !.pending_messages = @ \o <<CWID, INFO>>,
                   !.last_announcement = t, !.last_id = t]

repeaterinfo_timer(s, t) ==
    IF t - s.last_announcement <= InfoSecs
    THEN s
    ELSE [s EXCEPT !.pending_messages = Append(Append(@, INFO), CWID),
                   !.last_announcement = t,
                   !.last_id = t]

cwid_due(s, t) == ~(t - s.last_id <= IdSecs)

cwid_timer(s, t, when_sleep) ==
    IF ~cwid_due(s, t)
    THEN s
    ELSE IF ~s.sleep \/ when_sleep
         THEN [s EXCEPT !.pending_messages = Append(@, CWID), !.last_id = t]
         ELSE s

\* variant: the ID timer runs before the sleep evaluation
check_for_timed_events_id_first(s, t, when_sleep) ==
    repeaterinfo_timer(sleep_timer(cwid_timer(s, t, when_sleep), t), t)

\* check_for_timed_events: sleep_timer, repeaterinfo_timer, cwid_timer
check_for_timed_events(s, t, when_sleep) ==
    cwid_timer(repeaterinfo_timer(sleep_timer(s, t), t), t, when_sleep)

CheckForTimedEvents ==
    /\ pc = "loop"
    /\ LET s1 == sleep_timer(status, now)
           s2 == repeaterinfo_timer(s1, now)
           s3 == cwid_timer(s2, now, id_when_sleep)
       IN /\ status' = check_for_timed_events(status, now, id_when_sleep)
          /\ fired' = (IF s1 # status THEN {"sleep"} ELSE {})
                      \cup (IF s2 # s1 THEN {"info"} ELSE {})
                      \cup (IF s3 # s2 THEN {"id"} ELSE {})
                      \cup (IF cwid_due(s2, now) /\ s3 = s2 THEN {"id_held"} ELSE {})
          /\ id_deferred' = (s3.sleep /\ (id_deferred \/ (cwid_due(s2, now) /\ s3 = s2)))
    /\ pc' = "sample"
    /\ sample' = "none"
    /\ played' = <<>>
    /\ drain' = NoDrain
    /\ last_stop' = NoStop
    /\ tick_steps' = <<"timers">>
    /\ UNCHANGED <<now, wait_before_active, recorder, id_when_sleep, dtr, rts,
                   play_idx, busy_since, procs>>

\* ------------------------------------------------------------ recorder
\* variant: a recording of exactly min_rec_secs is deleted too
recording_deleted_inclusive(rec, t) == t - rec <= min_rec_secs

\* stop_recording: "if recording was less than min_rec_secs, delete it"
recording_deleted(rec, t) == t - rec < min_rec_secs

\* --------------------------------------------------- the branch of a tick
\* variant: the free branch runs whatever the line reads
free_branch_unconditional(s1) == TRUE

\* start_controller: "if not self.repeater.is_busy()"
free_branch(s1) == ~s1

\* start_controller: "elif self.repeater.is_busy()", a second read of the line
busy_branch(s1, s2) == ~free_branch(s1) /\ s2

\* variant: a sleeping repeater keeps its queue
drain_wanted_when_awake(s) == s.pending_messages # <<>> /\ ~s.sleep

\* when_repeater_is_free: "if self.status.pending_messages"
drain_wanted(s) == s.pending_messages # <<>>

TickFree ==
    /\ pc = "sample"
    /\ \E s1 \in BOOLEAN :
          /\ free_branch(s1)
          /\ sample' = IF s1 THEN "busy" ELSE "free"
    /\ status' = [status EXCEPT !.busy = FALSE]
    /\ wait_before_active' = FALSE
    \* when_repeater_is_free: stop_recording
    /\ IF recorder # None
       THEN /\ procs' = procs - 1
            /\ last_stop' = [duration |-> now - recorder,
                             deleted |-> recording_deleted(recorder, now)]
       ELSE UNCHANGED <<procs, last_stop>>
    /\ recorder' = None
    \* when_repeater_is_free: the queue is offered to the transmitter
    /\ IF drain_wanted(status')
       THEN /\ pc' = "enable_tx"
            /\ drain' = [NoDrain EXCEPT !.queue = status'.pending_messages]
            /\ played' = <<>>
            /\ tick_steps' = tick_steps \o <<"sample", "record", "drain">>
       ELSE /\ pc' = "loop"
            /\ tick_steps' = tick_steps \o <<"sample", "record">>
            /\ UNCHANGED <<drain, played>>
    /\ busy_since' = None
    /\ UNCHANGED <<now, id_when_sleep, dtr, rts, play_idx, fired, id_deferred>>

\* record_to_file has no try / except: the exception ends start_controller
record_failure_next == "crashed"

\* variant: a recorder is started on every busy tick
no_recorder_unchecked(rec) == TRUE

\* when_repeater_is_busy: "if not self.recorder"
no_recorder(rec) == rec = None

\* start_controller, busy branch: the wait before leaving sleep
wake_wait(s, w, t) ==
    IF s.sleep /\ ~w
    THEN <<[s EXCEPT !.sleep_wait_start = t], TRUE>>
    ELSE <<s, w>>

\* variant: the first busy sample wakes the repeater (an edge trigger)
wake_after_wait_edge(sw, t) ==
    IF sw[2]
    THEN <<[sw[1] EXCEPT !.sleep = FALSE, !.sleep_wait_start = None], FALSE>>
    ELSE sw

wake_after_wait(sw, t) ==
    IF sw[2] /\ t - sw[1].sleep_wait_start >= active_after_sec
    THEN <<[sw[1] EXCEPT !.sleep = FALSE, !.sleep_wait_start = None], FALSE>>
    ELSE sw

\* variant: the time is marked only when the channel was free before
mark_last_used_on_transition(s, was_busy, t) ==
    IF was_busy THEN s ELSE [s EXCEPT !.last_rcvd_dt = t]

\* when_repeater_is_busy: "mark the last used time", on every call
mark_last_used(s, was_busy, t) == [s EXCEPT !.last_rcvd_dt = t]

TickBusy ==
    /\ pc = "sample"
    /\ \E s1, s2 \in BOOLEAN :
          /\ busy_branch(s1, s2)
          /\ sample' = IF s1 THEN "busy" ELSE "free"
    /\ LET sw == wake_after_wait(
                     wake_wait([status EXCEPT !.busy = TRUE], wait_before_active, now),
                     now)
       IN /\ status' = mark_last_used(sw[1], status.busy, now)
          /\ wait_before_active' = sw[2]
    \* when_repeater_is_busy: start recording
    /\ IF no_recorder(recorder)
       THEN /\ recorder' = now
            /\ procs' = procs + 1
       ELSE UNCHANGED <<recorder, procs>>
    /\ pc' = "loop"
    /\ tick_steps' = tick_steps \o <<"sample", "wake", "record">>
    /\ busy_since' = IF busy_since = None THEN now ELSE busy_since
    /\ UNCHANGED <<now, id_when_sleep, dtr, rts, play_idx, fired, id_deferred, played,
                   drain, last_stop>>

\* record_to_file: subprocess.Popen raises (the recorder cannot be launched);
\* nothing catches it, so it leaves when_repeater_is_busy before last_rcvd_dt
\* is set and ends start_controller
RecordStartFails ==
    /\ pc = "sample"
    /\ \E s1, s2 \in BOOLEAN :
          /\ busy_branch(s1, s2)
          /\ sample' = IF s1 THEN "busy" ELSE "free"
    /\ no_recorder(recorder)
    /\ LET sw == wake_after_wait(
                     wake_wait([status EXCEPT !.busy = TRUE], wait_before_active, now),
                     now)
       IN /\ status' = sw[1]
          /\ wait_before_active' = sw[2]
    /\ pc' = record_failure_next
    /\ tick_steps' = tick_steps \o <<"sample", "wake", "record_failed">>
    /\ busy_since' = IF busy_since = None THEN now ELSE busy_since
    /\ UNCHANGED <<now, recorder, procs, id_when_sleep, dtr, rts, play_idx, fired,
                   id_deferred, played, drain, last_stop>>

\* the line read busy at the "if" and free at the "elif": neither branch runs
TickNeither ==
    /\ pc = "sample"
    /\ \E s1, s2 \in BOOLEAN :
          /\ ~free_branch(s1) /\ ~busy_branch(s1, s2)
          /\ sample' = IF s1 THEN "busy" ELSE "free"
    /\ pc' = "loop"
    /\ tick_steps' = tick_steps \o <<"sample">>
    /\ busy_since' = IF busy_since = None THEN now ELSE busy_since
    /\ UNCHANGED <<now, status, wait_before_active, recorder, id_when_sleep, dtr, rts,
                   play_idx, fired, id_deferred, played, drain, procs, last_stop>>

\* --------------------------------------------------------------- drain
\* outcomes of the two serial writes of serial_enable_tx / serial_disable_tx
SerialOutcomes == {"ok", "dtr_raised", "rts_raised"}

\* the lines after "setDTR(v); setRTS(v)" inside try / except
serial_lines(v, outcome, d, r) ==
    CASE outcome = "ok" -> <<v, v>>
      [] outcome = "dtr_raised" -> <<d, r>>
      [] outcome = "rts_raised" -> <<v, r>>

\* variant: serial_enable_tx returns without the pre_tx_delay
enable_tx_next_no_delay(outcome) == "play"

\* serial_enable_tx: asyncio.sleep(pre_tx_delay) is inside the try, after the
\* two writes; a write that raises skips it
enable_tx_next(outcome) == IF outcome = "ok" THEN "pre_tx" ELSE "play"

\* serial_disable_tx: asyncio.sleep(post_tx_delay) likewise follows the writes
disable_tx_next(outcome) == IF outcome = "ok" THEN "post_tx" ELSE "loop"

SerialEnableTx ==
    /\ pc = "enable_tx"
    /\ \E outcome \in SerialOutcomes :
          /\ dtr' = serial_lines(TRUE, outcome, dtr, rts)[1]
          /\ rts' = serial_lines(TRUE, outcome, dtr, rts)[2]
          /\ drain' = [drain EXCEPT !.keyed = outcome, !.steps = Append(@, "key")]
          /\ pc' = enable_tx_next(outcome)
    /\ play_idx' = 1
    /\ UNCHANGED <<now, status, wait_before_active, recorder, id_when_sleep,
                   sample, busy_since, fired, id_deferred, played, procs,
                   last_stop, tick_steps>>

\* serial_enable_tx: await asyncio.sleep(self.settings.pre_tx_delay)
PreTxDelay ==
    /\ pc = "pre_tx"
    /\ pc' = "play"
    /\ drain' = [drain EXCEPT !.steps = Append(@, "pre_tx_delay")]
    /\ UNCHANGED <<now, status, wait_before_active, recorder, id_when_sleep, dtr, rts,
                   play_idx, sample, busy_since, fired, id_deferred, played, procs,
                   last_stop, tick_steps>>

\* variant: a failed clip ends the loop
next_clip_abort(idx, ok, n) == IF ok THEN idx + 1 ELSE n + 1

\* play_pending_messages: the for loop goes on whatever the player's exit status
next_clip(idx, ok, n) == idx + 1

\* play_pending_messages: one "play -q message", its exit status ignored
PlayClip ==
    /\ pc = "play"
    /\ play_idx <= Len(status.pending_messages)
    /\ played' = Append(played, status.pending_messages[play_idx])
    /\ \E ok \in BOOLEAN :
          /\ drain' = [drain EXCEPT
                          !.failed = IF ~ok /\ @ = 0 THEN play_idx ELSE @,
                          !.steps = Append(@, "play")]
          /\ play_idx' = next_clip(play_idx, ok, Len(status.pending_messages))
    /\ UNCHANGED <<now, pc, status, wait_before_active, recorder, id_when_sleep,
                   dtr, rts, sample, busy_since, fired, id_deferred, procs,
                   last_stop, tick_steps>>

\* play_pending_messages: "self.status.pending_messages.clear()"
ClearQueue ==
    /\ pc = "play"
    /\ play_idx > Len(status.pending_messages)
    /\ status' = [status EXCEPT !.pending_messages = <<>>]
    /\ drain' = [drain EXCEPT !.steps = Append(@, "clear")]
    /\ pc' = "disable_tx"
    /\ play_idx' = 0
    /\ UNCHANGED <<now, wait_before_active, recorder, id_when_sleep, dtr, rts,
                   sample, busy_since, fired, id_deferred, played, procs,
                   last_stop, tick_steps>>

SerialDisableTx ==
    /\ pc = "disable_tx"
    /\ \E outcome \in SerialOutcomes :
          /\ dtr' = serial_lines(FALSE, outcome, dtr, rts)[1]
          /\ rts' = serial_lines(FALSE, outcome, dtr, rts)[2]
          /\ pc' = disable_tx_next(outcome)
          /\ drain' = [drain EXCEPT !.unkeyed = outcome, !.steps = Append(@, "unkey")]
    /\ UNCHANGED <<now, status, wait_before_active, recorder, id_when_sleep,
                   play_idx, sample, busy_since, fired, id_deferred, played,
                   procs, last_stop, tick_steps>>

\* serial_disable_tx: await asyncio.sleep(self.settings.post_tx_delay)
PostTxDelay ==
    /\ pc = "post_tx"
    /\ pc' = "loop"
    /\ drain' = [drain EXCEPT !.steps = Append(@, "post_tx_delay")]
    /\ UNCHANGED <<now, status, wait_before_active, recorder, id_when_sleep, dtr, rts,
                   play_idx, sample, busy_since, fired, id_deferred, played, procs,
                   last_stop, tick_steps>>

\* ---------------------------------------------------------------- stop
\* the ways start_controller ends: an uncaught exception, the stop signal
Ended == {"crashed", "exited"}

\* the external stop signal (KeyboardInterrupt / cancellation): start_controller
\* has no handler and no finally, so the loop ends where the signal finds it,
\* with the lines and the recorder as they are
Interrupt ==
    /\ pc \notin Ended
    /\ pc' = "exited"
    /\ UNCHANGED <<now, status, wait_before_active, recorder, id_when_sleep, dtr, rts,
                   play_idx, sample, busy_since, fired, id_deferred, played, drain,
                   procs, last_stop, tick_steps>>

Next ==
    \/ ClockAdvance
    \/ CheckForTimedEvents
    \/ TickFree
    \/ TickBusy
    \/ RecordStartFails
    \/ TickNeither
    \/ SerialEnableTx
    \/ PreTxDelay
    \/ PlayClip
    \/ ClearQueue
    \/ SerialDisableTx
    \/ PostTxDelay
    \/ Interrupt

Spec == Init /\ [][Next]_vars

\* the statements of the loop body: start_controller runs as a task of its
\* own and every await in it returns, so a step that can be taken is taken
LoopStep ==
    \/ CheckForTimedEvents
    \/ TickFree
    \/ TickBusy
    \/ TickNeither
    \/ SerialEnableTx
    \/ PreTxDelay
    \/ PlayClip
    \/ ClearQueue
    \/ SerialDisableTx
    \/ PostTxDelay

\* a run in which the channel is sampled free again and again is a run the
\* stop signal and a failed recorder launch never end: the steps of such a run
LiveClockAdvance ==
    /\ pc \in Blocking
    /\ now < MaxTimeLive
    /\ now' = now + 1
    /\ UNCHANGED <<pc, status, wait_before_active, recorder, id_when_sleep, dtr, rts,
                   play_idx, sample, busy_since, fired, id_deferred, played, drain,
                   procs, last_stop, tick_steps>>

NextLive == LoopStep \/ LiveClockAdvance

FairSpec == Init /\ [][NextLive]_vars /\ WF_vars(LoopStep)

\* ------------------------------------------------------- steps of a tick
TimersStep == pc = "loop" /\ pc' = "sample"
Draining == {"enable_tx", "pre_tx", "play", "disable_tx", "post_tx"}

\* ================================================= the loop of main()
\* __init__.py keeps its own loop: _busy (status.busy), recorder,
\* pending_messages and one watermark, last_announcement, for both timers.
\* The state of the Controller that main() does not have stays as Init left it.
main_frame ==
    <<wait_before_active, id_when_sleep, play_idx, sample, busy_since, id_deferred,
      played, drain, last_stop, tick_steps>>

\* main: "_busy = True", "recorder = None", "last_announcement = datetime.now()"
InitMain ==
    /\ now = 0
    /\ pc = "m_loop"
    /\ status = [InitStatus EXCEPT !.busy = TRUE]
    /\ wait_before_active = FALSE
    /\ recorder = None
    /\ id_when_sleep = FALSE
    /\ dtr = FALSE /\ rts = FALSE
    /\ play_idx = 0
    /\ sample = "none"
    /\ busy_since = None
    /\ fired = {}
    /\ id_deferred = FALSE
    /\ played = <<>>
    /\ drain = NoDrain
    /\ procs = 0
    /\ last_stop = NoStop
    /\ tick_steps = <<>>

\* time passes between iterations and while the clips play
MainBlocking == {"m_loop", "m_play"}

MainClockAdvance ==
    /\ pc \in MainBlocking
    /\ now < MaxTime
    /\ now' = now + 1
    /\ UNCHANGED <<pc, status, recorder, dtr, rts, fired, procs, main_frame>>

\* main: "if not rep.is_busy()": on the change to free the recorder process
\* is terminated (the variable keeps the old process); a non-empty queue is
\* then offered to the transmitter
MainFree ==
    /\ pc = "m_loop"
    /\ status' = [status EXCEPT !.busy = FALSE]
    /\ procs' = IF status.busy /\ recorder # None THEN 0 ELSE procs
    /\ pc' = IF drain_wanted(status) THEN "m_enable" ELSE "m_timers"
    /\ fired' = {}
    /\ UNCHANGED <<now, recorder, dtr, rts, main_frame>>

\* main: "else": on the change to busy a recorder is started
MainBusy ==
    /\ pc = "m_loop"
    /\ status' = [status EXCEPT !.busy = TRUE]
    /\ IF ~status.busy
       THEN /\ recorder' = now
            /\ procs' = procs + 1
       ELSE UNCHANGED <<recorder, procs>>
    /\ pc' = "m_timers"
    /\ fired' = {}
    /\ UNCHANGED <<now, dtr, rts, main_frame>>

\* main: "await rep.serial_enable_tx(rep)", "await asyncio.sleep(pre_tx_delay)"
MainEnableTx ==
    /\ pc = "m_enable"
    /\ \E outcome \in SerialOutcomes :
          /\ dtr' = serial_lines(TRUE, outcome, dtr, rts)[1]
          /\ rts' = serial_lines(TRUE, outcome, dtr, rts)[2]
    /\ pc' = "m_play"
    /\ UNCHANGED <<now, status, recorder, fired, procs, main_frame>>

\* main: play_pending_messages (clips, clear), serial_disable_tx, and then
\* "last_announcement = datetime.now()"
MainPlayAndDisable ==
    /\ pc = "m_play"
    /\ \E outcome \in SerialOutcomes :
          /\ dtr' = serial_lines(FALSE, outcome, dtr, rts)[1]
          /\ rts' = serial_lines(FALSE, outcome, dtr, rts)[2]
    /\ status' = [status EXCEPT !.pending_messages = <<>>, !.last_announcement = now]
    /\ fired' = {"drain"}
    /\ pc' = "m_timers"
    /\ UNCHANGED <<now, recorder, procs, main_frame>>

\* main: "if ... - last_announcement ... >= 60 * 60": info and ID are queued
main_info_timer(s, t) ==
    IF t - s.last_announcement >= InfoSecs
    THEN [s EXCEPT !.pending_messages = @ \o <<INFO, CWID>>, !.last_announcement = t]
    ELSE s

\* main: "if ... - last_announcement ... >= 15 * 60": the ID is queued, and the
\* same last_announcement is set
main_id_timer(s, t) ==
    IF t - s.last_announcement >= IdSecs
    THEN [s EXCEPT !.pending_messages = Append(@, CWID), !.last_announcement = t]
    ELSE s

MainTimers ==
    /\ pc = "m_timers"
    /\ LET s1 == main_info_timer(status, now)
           s2 == main_id_timer(s1, now)
       IN /\ status' = s2
          /\ fired' = fired \cup (IF s1 # status THEN {"info"} ELSE {})
                            \cup (IF s2 # s1 THEN {"id"} ELSE {})
    /\ pc' = "m_loop"
    /\ UNCHANGED <<now, recorder, dtr, rts, procs, main_frame>>

NextMain ==
    \/ MainClockAdvance
    \/ MainFree
    \/ MainBusy
    \/ MainEnableTx
    \/ MainPlayAndDisable
    \/ MainTimers

SpecMain == InitMain /\ [][NextMain]_vars

\* ============================================================== claims

\* C1  Half-duplex: the transmitter is keyed and clips are played only in a
\* tick whose busy sample was free; a tick that sampled busy keys nothing
\* and plays nothing.
C1_HalfDuplex ==
    /\ pc \in Draining => sample = "free"
    /\ sample = "busy" => (played = <<>> /\ drain = NoDrain)

C1_Witness ==
    pc = "play" /\ sample = "free" /\ dtr /\ rts /\ Len(played) = 2

\* C2  At most one live recording: never two recorder processes; a recorder
\* is held exactly while one process runs; a stop leaves none.
C2_AtMostOneRecording ==
    /\ procs \in {0, 1}
    /\ (recorder # None) <=> (procs = 1)
    /\ last_stop # NoStop => (procs = 0 /\ recorder = None)

C2_Witness ==
    procs = 1 /\ recorder # None /\ status.last_rcvd_dt > recorder /\ pc = "loop"

\* C3  Discard policy: a stopped recording's file is deleted if and only if
\* its duration is strictly less than min_rec_secs (a duration equal to it
\* is kept), and the controller ends with no live recording.
C3_DiscardPolicy ==
    last_stop # NoStop =>
        /\ last_stop.deleted <=> (last_stop.duration < min_rec_secs)
        /\ recorder = None
        /\ procs = 0

C3_Witness == last_stop.duration = min_rec_secs /\ ~last_stop.deleted

\* C4  Sleep entry: an Awake repeater becomes Sleeping exactly in the timer
\* step of a tick where now - last_rcvd_dt >= sleep_after, and that step
\* records sleep_start_dt = now; below the threshold it stays Awake.
C4_SleepEntry ==
    [][~status.sleep =>
         /\ status'.sleep <=>
                (TimersStep /\ now - status.last_rcvd_dt >= SleepAfterSecs)
         /\ status'.sleep => status'.sleep_start_dt = now]_vars

C4_Witness ==
    /\ "sleep" \in fired /\ status.sleep
    /\ status.last_rcvd_dt > 0
    /\ status.sleep_start_dt - status.last_rcvd_dt = SleepAfterSecs

\* C5  Wake hysteresis: a Sleeping repeater becomes Awake only in a tick
\* that ends an unbroken run of busy samples at least active_after_sec long;
\* a free sample leaves it Sleeping and cancels the wait, so the next busy
\* period counts from zero.
C5_WakeHysteresis ==
    [][/\ (status.sleep /\ ~status'.sleep) =>
              (busy_since' # None /\ now - busy_since' >= active_after_sec)
       /\ (pc = "sample" /\ sample' = "free") =>
              (~wait_before_active' /\ status'.sleep = status.sleep)
       /\ (wait_before_active' /\ ~wait_before_active) =>
              status'.sleep_wait_start = now]_vars

C5_Witness ==
    /\ ~status.sleep /\ status.sleep_wait_start = None
    /\ sample = "busy" /\ pc = "loop"
    /\ busy_since > status.sleep_start_dt
    /\ now - busy_since = active_after_sec

\* C6, first half: with id_when_sleep false, a tick whose ID timer is due
\* while Sleeping has no ID fire; cwid_timer appends nothing and keeps last_id
\* (what changes in such a tick is the repeater-info timer's doing).
C6_IdHeldWhileAsleep ==
    [][(TimersStep /\ ~id_when_sleep /\ "id_held" \in fired') =>
          /\ status'.sleep
          /\ "id" \notin fired'
          /\ "info" \notin fired' =>
                 /\ status'.last_id = status.last_id
                 /\ status'.pending_messages = status.pending_messages]_vars

\* C6, second half: once an ID was held back, the first timer step that finds
\* the repeater Awake again appends the ID clip.
C6_DeferredIdOnWake ==
    [][(TimersStep /\ id_deferred /\ ~status'.sleep) =>
          /\ Len(status'.pending_messages) > Len(status.pending_messages)
          /\ status'.pending_messages[Len(status'.pending_messages)] = CWID]_vars

\* C6  ID suppression is deferral, not loss: with id_when_sleep false, a tick
\* whose ID timer is due while Sleeping appends no ID and keeps last_id, and
\* the ID clip is appended on the first timer step after the repeater is
\* Awake again.
C6_IdDeferredNotLost == C6_IdHeldWhileAsleep /\ C6_DeferredIdOnWake

\* C7  Repeater-info suppression while asleep: with rpt_info_when_asleep
\* false, a tick that finds the repeater Sleeping has no repeater-info fire
\* (no clip appended, last_announcement and last_id kept by that timer).
C7_InfoSuppressedAsleep ==
    (pc = "sample" /\ status.sleep /\ ~rpt_info_when_asleep) => "info" \notin fired

\* C8  Info-implies-ID: a repeater-info fire appends exactly the info clip
\* followed by the ID clip, sets last_id and last_announcement to this
\* tick's time, and the ID timer does not fire in the same tick.
C8_InfoImpliesId ==
    [][(TimersStep /\ "info" \in fired') =>
          /\ status'.pending_messages = status.pending_messages \o <<INFO, CWID>>
          /\ status'.last_announcement = now
          /\ status'.last_id = status'.last_announcement
          /\ "id" \notin fired']_vars

C8_Witness ==
    /\ pc = "sample" /\ "info" \in fired
    /\ now - status.last_id = 0
    /\ Len(status.pending_messages) >= 3

C10_KeyFailKeepsQueue ==
    drain.keyed \in {"dtr_raised", "rts_raised"} =>
        (played = <<>> /\ status.pending_messages = drain.queue)

\* C11  Clean stop: once the stop signal has ended the loop the transmit
\* lines are deasserted and no recording is live, wherever in the tick the
\* signal arrived (a signal during a drain takes effect after the unkey).
C11_CleanStop ==
    pc = "exited" => (~dtr /\ ~rts /\ recorder = None /\ procs = 0)

\* C12  Recorder start failure is recovered locally: after a busy tick in
\* which launching the recorder failed there is no live recording and the
\* control loop is still running, so the next busy tick tries again.
C12_RecordFailRecovered ==
    (tick_steps # <<>> /\ tick_steps[Len(tick_steps)] = "record_failed") =>
        /\ recorder = None
        /\ procs = 0
        /\ pc \notin Ended

\* ------------------------------------------------------ steps of a drain
IsPrefix(a, b) == Len(a) <= Len(b) /\ \A i \in 1..Len(a) : a[i] = b[i]
Has(seq, e) == \E i \in 1..Len(seq) : seq[i] = e
Last(seq) == seq[Len(seq)]
Plays(n) == [i \in 1..n |-> "play"]

\* when_repeater_is_free as written: serial_enable_tx (writes, pre_tx_delay),
\* play_pending_messages (clips, clear), serial_disable_tx (writes,
\* post_tx_delay); a delay is skipped when its writes raised
drain_steps(n, keyed, unkeyed) ==
    <<"key">> \o (IF keyed = "ok" THEN <<"pre_tx_delay">> ELSE <<>>)
              \o Plays(n) \o <<"clear", "unkey">>
              \o (IF unkeyed \in {"none", "ok"} THEN <<"post_tx_delay">> ELSE <<>>)

\* the order the description gives
stated_drain_steps(n) ==
    <<"key", "pre_tx_delay">> \o Plays(n) \o <<"post_tx_delay", "unkey", "clear">>

\* C13  (as stated) key, pre_tx_delay, clips, post_tx_delay, unkey, clear:
\* the queue is not emptied before the unkey.
C13_DrainOrderAsStated ==
    /\ drain.keyed = "ok" =>
           IsPrefix(drain.steps, stated_drain_steps(Len(drain.queue)))
    /\ (pc \in Draining /\ status.pending_messages = <<>>) => Has(drain.steps, "unkey")

\* C13  (amended) Order of the steps of one drain: key, pre_tx_delay, every
\* queued clip, queue cleared, unkey, post_tx_delay; the queue is already
\* empty at the unkey and the lines are deasserted during post_tx_delay; a
\* delay is skipped when the serial writes before it raised.
C13_DrainOrder ==
    /\ IsPrefix(drain.steps, drain_steps(Len(drain.queue), drain.keyed, drain.unkeyed))
    /\ (pc = "loop" /\ drain # NoDrain) =>
           drain.steps = drain_steps(Len(drain.queue), drain.keyed, drain.unkeyed)
    /\ Has(drain.steps, "unkey") => status.pending_messages = <<>>
    /\ pc = "post_tx" => (~dtr /\ ~rts)

C13_Witness ==
    /\ pc = "loop"
    /\ drain.keyed = "ok"
    /\ drain.unkeyed = "ok"
    /\ drain.steps = <<"key", "pre_tx_delay", "play", "play", "clear", "unkey",
                       "post_tx_delay">>

\* ------------------------------------------------------- order in a tick
\* start_controller: check_for_timed_events, then the read of the line, then
\* when_repeater_is_free (stop_recording, drain) or the wake evaluation and
\* when_repeater_is_busy (record_to_file, last_rcvd_dt)
tick_paths ==
    { <<"timers", "sample", "record", "drain">>,
      <<"timers", "sample", "wake", "record">>,
      <<"timers", "sample", "wake", "record_failed">> }

C14_TickOrderInv ==
    /\ \E p \in tick_paths : IsPrefix(tick_steps, p)
    /\ sample # "none" => (Len(tick_steps) >= 2 /\ tick_steps[1] = "timers")
    /\ pc \in Draining => tick_steps = <<"timers", "sample", "record", "drain">>
    /\ Has(tick_steps, "drain") => (sample = "free" /\ recorder = None)

BusyBranchStep ==
    pc = "sample" /\ tick_steps' = tick_steps \o <<"sample", "wake", "record">>

C16_InclusiveThreshold ==
    [][TimersStep =>
         /\ now - status.last_announcement >= InfoSecs => "info" \in fired'
         /\ (now - status.last_id >= IdSecs /\ "info" \notin fired'
               /\ (~status'.sleep \/ id_when_sleep))
            => "id" \in fired']_vars

\* clip e is appended to the pending queue in this step
Queued(e) ==
    \E i \in (Len(status.pending_messages) + 1)..Len(status'.pending_messages) :
        status'.pending_messages[i] = e

\* C17  The two announcement timers are independent: the info watermark
\* (last_announcement) moves only in a step that queues the info clip and the
\* ID watermark (last_id) only in a step that queues the ID clip; an ID fire
\* alone and a drain change neither.
C17_TimersIndependent ==
    [][/\ status'.last_announcement # status.last_announcement => Queued(INFO)
       /\ status'.last_id # status.last_id => Queued(CWID)]_vars

\* C18  Transmitter never left keyed across ticks: at every busy sample the
\* transmit lines are deasserted, and a tick that called serial_enable_tx has
\* called serial_disable_tx by its end.
C18_NeverLeftKeyed ==
    /\ pc = "sample" => (~dtr /\ ~rts)
    /\ (pc = "loop" /\ Has(drain.steps, "key")) => Has(drain.steps, "unkey")

\* every info clip of the queue is directly followed by an ID, and a non-empty
\* queue ends with the ID
ends_with_id(q) ==
    /\ \A i \in 1..Len(q) : q[i] = INFO => (i < Len(q) /\ q[i + 1] = CWID)
    /\ q # <<>> => Last(q) = CWID

\* C19  Every transmission ends with the station ID: in every state each info
\* clip of the pending queue is directly followed by an ID and a non-empty
\* queue ends with the ID, so the last clip played in a drain is the ID.
C19_EndsWithId ==
    /\ ends_with_id(status.pending_messages)
    /\ ends_with_id(drain.queue)
    /\ Has(drain.steps, "clear") => (played # <<>> /\ Last(played) = CWID)

C19_Witness ==
    /\ Has(drain.steps, "clear")
    /\ played = <<CWID, INFO, CWID>>

\* C20  Recording mirrors the busy signal: at the end of every tick a
\* recording is live if and only if that tick sampled the channel busy.
C20_RecordingMirrorsBusy ==
    (pc = "loop" /\ sample # "none") => ((recorder # None) <=> (sample = "busy"))

\* C21  (queue part) while no drain runs the queue is only appended to; it is
\* shortened only by the clear of a drain, in a tick that sampled free, after
\* every clip of it was handed to the player in queue order.
C21_OnlyDrainShortens ==
    [][\/ IsPrefix(status.pending_messages, status'.pending_messages)
       \/ /\ pc = "play"
          /\ sample = "free"
          /\ played = status.pending_messages
          /\ status'.pending_messages = <<>>]_vars

\* C21  (progress part) if the channel is sampled free infinitely often, a
\* non-empty pending queue is eventually emptied (by the queue part: after
\* each of its clips was played).
C21_QueueIsDrained ==
    []<><<TickFree>>_vars =>
        ((status.pending_messages # <<>>) ~> (status.pending_messages = <<>>))

\* C21  Pending announcements are eventually played: with the channel sampled
\* free infinitely often every queued clip, the startup [info, id] included,
\* is eventually played in a drain; while the channel stays busy the queue is
\* only appended to, never shortened.
C21_EventuallyPlayed == C21_OnlyDrainShortens /\ C21_QueueIsDrained

C21_Witness ==
    /\ Has(drain.steps, "clear")
    /\ busy_since = None
    /\ played = <<INFO, CWID, CWID>>

====
